---- MODULE Spec2Model ----
(***************************************************************************)
(* The Swendson-Wang evolution on the Potts model (src/Models.py): the     *)
(* proposal step over a lattice with spins in a finite field, and the      *)
(* initial-state generator.                                                *)
(*                                                                         *)
(* Vertices and edges are numbered from 1 here (the code numbers them from *)
(* 0).  A vector is a sequence, a matrix a sequence of rows.  A field      *)
(* element is the integer that represents it in the field arithmetic       *)
(* provider: 0..q-1.  Real numbers (temperatures, probabilities, uniform   *)
(* draws) are fixed-point: temperatures in tenths, the others in           *)
(* thousandths.                                                            *)
(***************************************************************************)
EXTENDS Integers, Sequences, FiniteSets

VARIABLES lattice, spin, testing, temperature, chain, included, drawn, coeffs,
          proposed, last

vars == <<lattice, spin, testing, temperature, chain, included, drawn, coeffs,
          proposed, last>>

(* The driver stops after this many committed proposals. *)
MaxStep == 1

(***************************************************************************)
(* Finite-field arithmetic, as the field arithmetic provider computes it.  *)
(***************************************************************************)

(* The characteristic of the field of order q (q = 4 is GF(2^2)). *)
Characteristic(q) == IF q = 4 THEN 2 ELSE q

(* Addition of GF(4): bitwise exclusive or of the two-bit representations. *)
Xor4(a, b) == 2 * (((a \div 2) + (b \div 2)) % 2) + ((a + b) % 2)

(* Multiplication of GF(4) = GF(2)[x]/(x^2+x+1), 2 = x and 3 = x+1. *)
Mul4(a, b) ==
    IF a = 0 \/ b = 0 THEN 0
    ELSE IF a = 1 THEN b
    ELSE IF b = 1 THEN a
    ELSE IF a = 2 /\ b = 2 THEN 3
    ELSE IF a = 3 /\ b = 3 THEN 2
    ELSE 1

FAdd(q, a, b) == IF q = 4 THEN Xor4(a, b) ELSE (a + b) % q

FMul(q, a, b) == IF q = 4 THEN Mul4(a, b) ELSE (a * b) % q

(* The additive inverse of 1. *)
FMinusOne(q) == CHOOSE x \in 0..(q - 1) : FAdd(q, x, 1) = 0

(* The field sum of the entries of a sequence. *)
RECURSIVE FSum(_, _)
FSum(q, s) == IF s = <<>> THEN 0 ELSE FAdd(q, Head(s), FSum(q, Tail(s)))

(* np.add on two field vectors. *)
VecAdd(q, x, y) == [i \in 1..Len(x) |-> FAdd(q, x[i], y[i])]

(* integer * field vector: the integer is reduced modulo the characteristic
   and multiplied in as an element of the prime subfield (c-fold addition). *)
ScalarMul(q, c, b) == [i \in 1..Len(b) |-> FMul(q, c % Characteristic(q), b[i])]

(* np.matmul of an n x k and a k x m matrix over the field. *)
MatMul(q, A, B, m) ==
    [i \in 1..Len(A) |->
        [j \in 1..m |-> FSum(q, [l \in 1..Len(B) |-> FMul(q, A[i][l], B[l][j])])]]

(* The transpose of a matrix with n rows and m columns. *)
Transpose(A, m) == [j \in 1..m |-> [i \in 1..Len(A) |-> A[i][j]]]

(***************************************************************************)
(* The lattice: vertices 1..nv, edges with two endpoints each, the field   *)
(* order and the boundary operator, an nv x M matrix over the field.       *)
(***************************************************************************)

NumEdges(L) == Len(L.edges)

(* All vectors of n field elements. *)
Vectors(n, q) == [1..n -> 0..(q - 1)]

(* The boundary operator of a complex of vertices and oriented edges: the
   boundary of the edge (u,v) is v - u. *)
IncidenceBoundary(nv, edges, q) ==
    [v \in 1..nv |->
        [e \in 1..Len(edges) |->
            FAdd(q, IF edges[e][1] = v THEN FMinusOne(q) ELSE 0,
                    IF edges[e][2] = v THEN 1 ELSE 0)]]

MkLattice(nv, edges, q) ==
    [nv |-> nv, edges |-> edges, order |-> q,
     boundary |-> IncidenceBoundary(nv, edges, q)]

(* The lattices of the model: an edge, a path, a triangle and a periodic
   two-vertex cycle, over prime fields and over GF(4). *)
Lattices ==
    { MkLattice(2, <<<<1, 2>>>>, q) : q \in {2, 3, 4} }
    \cup { MkLattice(3, <<<<1, 2>>, <<2, 3>>>>, q) : q \in {3} }
    \cup { MkLattice(3, <<<<1, 2>>, <<2, 3>>, <<3, 1>>>>, q) : q \in {2} }
    \cup { MkLattice(2, <<<<1, 2>>, <<2, 1>>>>, q) : q \in {3, 4} }

(* Complexes handed in with an arbitrary boundary operator: two vertices,
   two cells of dimension 1, any 2 x 2 matrix over GF(2) and the ones
   without a zero entry over GF(3). *)
GeneralLattices ==
    { [nv |-> 2, edges |-> <<<<1, 2>>, <<1, 2>>>>, order |-> q, boundary |-> B] :
        q \in {2}, B \in [1..2 -> [1..2 -> 0..1]] }
    \cup
    { [nv |-> 2, edges |-> <<<<1, 2>>, <<1, 2>>>>, order |-> q, boundary |-> B] :
        q \in {3}, B \in [1..2 -> [1..2 -> 1..2]] }

(***************************************************************************)
(* The temperature schedule and the inclusion probability.                 *)
(***************************************************************************)

(* The default schedule is constant(0.7); in tenths. *)
DefaultTemperature == 7

(* The schedules of the model: constant ones (the default, -1.0 and
   -1000.0) and one that cools by 1.0 per step from 0.0. *)
Schedules ==
    { [kind |-> "constant", value |-> t] : t \in {DefaultTemperature, -10, -10000} }
    \cup { [kind |-> "ramp", value |-> 0] }

(* self.temperature(chain.step), in tenths. *)
Temperature(schedule, step) ==
    IF schedule.kind = "constant" THEN schedule.value
    ELSE schedule.value - 10 * step

(* np.exp(t) in thousandths, t in tenths; exp underflows to 0.0 far below. *)
ExpMilli(t) ==
    CASE t = 7 -> 2014
      [] t = 0 -> 1000
      [] t = -10 -> 368
      [] t = -20 -> 135
      [] t = -30 -> 50
      [] t = -40 -> 18
      [] t = -50 -> 7
      [] OTHER -> 0

(* The probability with the complement forgotten: p = exp(temperature(step)). *)
ProbWithoutComplement(schedule, step) == ExpMilli(Temperature(schedule, step))

(* p = 1 - exp(temperature(step)), in thousandths. *)
Prob(schedule, step) == 1000 - ExpMilli(Temperature(schedule, step))

(* The values np.random.uniform() yields here: 0.0 and 0.9, in thousandths. *)
Draws == {0, 900}

(***************************************************************************)
(* proposal: the scan over the edges.                                      *)
(***************************************************************************)

(* The comparison taking the spin 0 for "no spin": an edge at a vertex of
   spin 0 counts as a mismatch. *)
SpinsDifferOrZero(L, state, e) ==
    state[L.edges[e][1]] # state[L.edges[e][2]] \/ state[L.edges[e][1]] = 0

(* state[u.index] != state[v.index] for the edge e. *)
SpinsDiffer(L, state, e) == state[L.edges[e][1]] # state[L.edges[e][2]]

(* The edge is included: its spins agree and the draw is below p. *)
EdgeIncluded(L, state, p, d, e) == ~SpinsDiffer(L, state, e) /\ d[e] < p

(* The scan without its first case: the spins are not compared. *)
EdgeFlagsNoMismatchCheck(L, state, p, d) ==
    [e \in 1..NumEdges(L) |-> IF d[e] < p THEN 1 ELSE 0]

(* edge.spin of every edge after the scan. *)
EdgeFlags(L, state, p, d) ==
    [e \in 1..NumEdges(L) |->
        IF SpinsDiffer(L, state, e) THEN 0
        ELSE IF d[e] < p THEN 1 ELSE 0]

(* The scan without the assignment to `included`: the matrix stays zero. *)
SelectorNeverSet(L, state, p, d) ==
    [e \in 1..NumEdges(L) |-> [f \in 1..NumEdges(L) |-> 0]]

(* The M x M matrix `included` after the scan: zeros, and a 1 on the
   diagonal at every included edge. *)
Selector(L, state, p, d) ==
    [e \in 1..NumEdges(L) |->
        [f \in 1..NumEdges(L) |->
            IF e = f /\ EdgeIncluded(L, state, p, d, e) THEN 1 ELSE 0]]

(* The draws np.random.uniform() made for each edge: none on a spin
   mismatch, one otherwise. *)
Consulted(L, state, d) ==
    [e \in 1..NumEdges(L) |-> IF SpinsDiffer(L, state, e) THEN {} ELSE {d[e]}]

(***************************************************************************)
(* proposal: the induced boundary, its coboundary and the null space.      *)
(***************************************************************************)

(* np.matmul(lattice.boundary, included) *)
InducedBoundary(L, sel) == MatMul(L.order, L.boundary, sel, NumEdges(L))

(* boundary.T *)
Coboundary(L, sel) == Transpose(InducedBoundary(L, sel), NumEdges(L))

(* The vectors x over the vertices with A x = 0. *)
NullSpace(q, A, nv) ==
    { x \in Vectors(nv, q) :
        \A e \in 1..Len(A) :
            FSum(q, [v \in 1..nv |-> FMul(q, A[e][v], x[v])]) = 0 }

(* The position of the first nonzero entry of a nonzero vector. *)
Lead(x) == CHOOSE i \in 1..Len(x) : x[i] # 0 /\ \A j \in 1..(i - 1) : x[j] = 0

Pivots(N) == { Lead(x) : x \in { y \in N : \E i \in 1..Len(y) : y[i] # 0 } }

(* The k-th smallest pivot. *)
NthPivot(P, k) == CHOOSE p \in P : Cardinality({ r \in P : r < p }) = k - 1

(* The vectors of the subspace N in reduced row echelon form: one per pivot,
   1 at its pivot and 0 at the others, in the order of the pivots. *)
EchelonRows(N, P) ==
    [k \in 1..Cardinality(P) |->
        CHOOSE x \in N : x[NthPivot(P, k)] = 1 /\ \A r \in P \ {NthPivot(P, k)} : x[r] = 0]

(* A.null_space(): the basis of the null space in reduced row echelon form,
   which is what the row reduction of the provider ends with.  (The null
   space and its pivots are bound once, and the rows read off them.) *)
NullSpaceBasis(q, A, nv) ==
    CHOOSE b \in UNION { { EchelonRows(N, P) : P \in {Pivots(N)} } :
                           N \in {NullSpace(q, A, nv)} } : TRUE

(* reduce(np.add, terms) of a nonempty list, from the left. *)
RECURSIVE ReduceAdd(_, _)
ReduceAdd(q, terms) ==
    IF Len(terms) = 1 THEN terms[1]
    ELSE VecAdd(q, ReduceAdd(q, SubSeq(terms, 1, Len(terms) - 1)), terms[Len(terms)])

(* The integer sum of the entries of a sequence. *)
RECURSIVE IntSum(_)
IntSum(s) == IF s = <<>> THEN 0 ELSE Head(s) + IntSum(Tail(s))

(* The terms summed along the wrong axis, as integers: one entry per basis
   vector instead of one per vertex. *)
CombineWrongAxis(q, basis, c) ==
    [k \in 1..Len(basis) |-> IntSum(ScalarMul(q, c[k], basis[k]))]

(* np.array(reduce(np.add, [uniform(0, order)*b for b in basis])) *)
Combine(q, basis, c) ==
    ReduceAdd(q, [k \in 1..Len(basis) |-> ScalarMul(q, c[k], basis[k])])

(* The values uniform(0, order) yields. *)
Uniform(low, high) == low..(high - 1)

(***************************************************************************)
(* The state: the lattice and the model's configuration, the chain, and    *)
(* what the last call of proposal drew, built and returned.                *)
(***************************************************************************)

NoVector == <<>>

InitOn(Ls) ==
    /\ lattice \in Ls
    /\ spin \in [1..NumEdges(lattice) -> {0, 1}]
    /\ testing \in BOOLEAN
    /\ temperature \in Schedules
    /\ chain = [state |-> NoVector, step |-> 0]
    /\ included = <<>>
    /\ drawn = [e \in 1..NumEdges(lattice) |-> {}]
    /\ coeffs = <<>>
    /\ proposed = NoVector
    /\ last = "new"

Init == InitOn(Lattices)

InitGeneral == InitOn(GeneralLattices)

(* initial without its testing branch. *)
InitialStateIgnoresTesting(L, test, cocycle) == cocycle

(* initial with the fixture labelling every vertex 0. *)
InitialStateZeros(L, test, cocycle) ==
    IF test THEN [v \in 1..L.nv |-> 0] ELSE cocycle

(* The vector initial returns, the distribution having yielded cocycle. *)
InitialState(L, test, cocycle) ==
    IF test THEN [v \in 1..L.nv |-> 1] ELSE cocycle

(* The driver seeds the chain with SwendsonWang.initial. *)
Initial ==
    /\ last = "new"
    /\ \E cocycle \in [1..lattice.nv -> Uniform(0, lattice.order)] :
          chain' = [state |-> InitialState(lattice, testing, cocycle), step |-> 0]
    /\ last' = "initial"
    /\ UNCHANGED <<lattice, spin, testing, temperature, included, drawn, coeffs,
                   proposed>>

(* What a call of proposal writes, the chain apart.  With an empty basis
   reduce() raises TypeError and nothing is returned. *)
ProposalEffect ==
    /\ last \in {"initial", "commit"}
    /\ \E d \in [1..NumEdges(lattice) -> Draws] :
       \E p \in {Prob(temperature, chain.step)} :
       \E sel \in {Selector(lattice, chain.state, p, d)} :
       \E basis \in {NullSpaceBasis(lattice.order, Coboundary(lattice, sel), lattice.nv)} :
       \E c \in [1..Len(basis) -> Uniform(0, lattice.order)] :
          /\ spin' = EdgeFlags(lattice, chain.state, p, d)
          /\ included' = sel
          /\ drawn' = Consulted(lattice, chain.state, d)
          /\ coeffs' = c
          /\ IF Len(basis) = 0
             THEN /\ last' = "error"
                  /\ proposed' = NoVector
             ELSE /\ last' = "proposal"
                  /\ proposed' = Combine(lattice.order, basis, c)
    /\ UNCHANGED <<lattice, testing, temperature>>

(* A proposal that would store its result in the chain. *)
ProposalInPlace ==
    /\ ProposalEffect
    /\ chain' = [chain EXCEPT !.state = proposed']

(* SwendsonWang.proposal(chain) *)
Proposal ==
    /\ ProposalEffect
    /\ chain' = chain

(* The driver: accept(chain) is the default policy, always, so the proposal
   becomes the state of the chain; what the call built is gone by then. *)
Commit ==
    /\ last = "proposal"
    /\ chain.step < MaxStep
    /\ chain' = [state |-> proposed, step |-> chain.step + 1]
    /\ last' = "commit"
    /\ included' = <<>>
    /\ drawn' = [e \in 1..NumEdges(lattice) |-> {}]
    /\ coeffs' = <<>>
    /\ proposed' = NoVector
    /\ UNCHANGED <<lattice, spin, testing, temperature>>

Next == Initial \/ Proposal \/ Commit

Spec == Init /\ [][Next]_vars

SpecGeneral == InitGeneral /\ [][Next]_vars

(***************************************************************************)
(* Properties.  They restate what they need from the state: the endpoints  *)
(* of an edge, the spins compared, the probability, the null space.        *)
(***************************************************************************)

Edges == 1..NumEdges(lattice)

Tail1(e) == lattice.edges[e][1]

Head1(e) == lattice.edges[e][2]

(* The endpoints of e carry the same spin in the vector s. *)
SameSpin(s, e) == s[Tail1(e)] = s[Head1(e)]

(* 1 - exp(temperature(step)) at the chain's step, in thousandths. *)
PNow == 1000 - ExpMilli(Temperature(temperature, chain.step))

ZeroVector == [v \in 1..lattice.nv |-> 0]

(* The null space of the coboundary induced by the selector of the last call. *)
InducedNullSpace == NullSpace(lattice.order, Coboundary(lattice, included), lattice.nv)

(* C1: the vector proposal returns lies in the null space of the induced
   coboundary: it is constant along every edge whose spin flag is 1. *)
ClusterConsistency ==
    last = "proposal" =>
        /\ proposed \in InducedNullSpace
        /\ \A e \in Edges : spin[e] = 1 => proposed[Tail1(e)] = proposed[Head1(e)]

(* A proposal with an included edge and an edge along which it is not constant. *)
ClusterConsistencyWitness ==
    /\ last = "proposal"
    /\ \E e \in Edges : spin[e] = 1
    /\ \E f \in Edges : proposed[Tail1(f)] # proposed[Head1(f)]

(* C2: an edge whose endpoints carry different spins in the input state has
   flag 0 and selector entry 0 after the call, and no draw was made for it. *)
ExclusionOnMismatch ==
    last = "proposal" =>
        \A e \in Edges :
            ~SameSpin(chain.state, e) =>
                spin[e] = 0 /\ included[e][e] = 0 /\ drawn[e] = {}

(* A mismatched edge at p = 1, where every draw is below p. *)
ExclusionOnMismatchWitness ==
    /\ last = "proposal"
    /\ PNow >= 1000
    /\ \E e \in Edges : ~SameSpin(chain.state, e)

(* The basis the last call computed. *)
LastBasis == NullSpaceBasis(lattice.order, Coboundary(lattice, included), lattice.nv)

(* C3: the vectors proposal can return, one coefficient in 0..q-1 drawn per
   basis vector, are exactly the null space of the induced coboundary, each
   by the same number of coefficient choices. *)
UniformFromNullSpace ==
    last = "proposal" =>
        \A N \in {InducedNullSpace} :
        \A basis \in {LastBasis} :
        \A R \in {[c \in [1..Len(basis) -> 0..(lattice.order - 1)] |->
                      Combine(lattice.order, basis, c)]} :
            /\ \A x \in N : \E c \in DOMAIN R : R[c] = x
            /\ \A c \in DOMAIN R : R[c] \in N
            /\ \A x, y \in N :
                  Cardinality({ c \in DOMAIN R : R[c] = x })
                      = Cardinality({ c \in DOMAIN R : R[c] = y })

(* C4: with a trivial null space proposal returns the zero vector, and
   does not end in an error. *)
EmptyBasisZeroVector ==
    (last \in {"proposal", "error"} /\ InducedNullSpace = {ZeroVector}) =>
        (last = "proposal" /\ proposed = ZeroVector)

(* C5: every vector proposal returns has one entry per vertex, each an
   integer in [0, q). *)
FieldOrderRespect ==
    last = "proposal" =>
        /\ DOMAIN proposed = 1..lattice.nv
        /\ \A v \in DOMAIN proposed : proposed[v] \in 0..(lattice.order - 1)

(* A proposal on a committed state that uses the largest element of a field
   of order above 2. *)
FieldOrderRespectWitness ==
    /\ last = "proposal"
    /\ chain.step >= 1
    /\ lattice.order > 2
    /\ \E v \in 1..lattice.nv : proposed[v] = lattice.order - 1

(* C6: initial returns one field element per vertex, each in [0, q), and
   the all-1 vector with the testing flag on; it leaves the lattice as it is. *)
InitialStateShape ==
    [][last' = "initial" =>
          /\ DOMAIN chain'.state = 1..lattice.nv
          /\ \A v \in 1..lattice.nv : chain'.state[v] \in 0..(lattice.order - 1)
          /\ testing => \A v \in 1..lattice.nv : chain'.state[v] = 1
          /\ lattice' = lattice
          /\ spin' = spin]_vars

(* The fixture: a seeded chain with the testing flag on, on a lattice with
   a flag set before. *)
InitialStateShapeWitness ==
    /\ last = "initial"
    /\ testing
    /\ \E e \in Edges : spin[e] = 1

(* C7: a call of proposal leaves chain.state and chain.step as they are; of
   the lattice and the model only the spin flags are written. *)
ProposalLeavesChain ==
    [][last' \in {"proposal", "error"} =>
          /\ chain'.state = chain.state
          /\ chain'.step = chain.step
          /\ lattice' = lattice
          /\ testing' = testing
          /\ temperature' = temperature]_vars

(* A proposal that differs from the state it was made for, with a flag set. *)
ProposalLeavesChainWitness ==
    /\ last = "proposal"
    /\ proposed # chain.state
    /\ \E e \in Edges : spin[e] = 1

InclusionRule ==
    last = "proposal" =>
        /\ \A e \in Edges :
              /\ spin[e] \in {0, 1}
              /\ spin[e] = included[e][e]
              /\ spin[e] = 1 <=>
                    (SameSpin(chain.state, e) /\ \E x \in drawn[e] : x < PNow)
        /\ \A e, f \in Edges : e # f => included[e][f] = 0
        /\ PNow <= 0 => \A e \in Edges : spin[e] = 0
        /\ PNow >= 1000 => \A e \in Edges : SameSpin(chain.state, e) => spin[e] = 1

(* A later call with 0 < p < 1 that includes one edge and leaves out
   another whose spins agree. *)
InclusionRuleWitness ==
    /\ last = "proposal"
    /\ chain.step >= 1
    /\ PNow > 0 /\ PNow < 1000
    /\ \E e, f \in Edges :
          /\ spin[e] = 1
          /\ spin[f] = 0 /\ SameSpin(chain.state, f)

(* The draws of the last call, 0 standing for the draws that were not made. *)
LastDraws == [e \in Edges |-> IF drawn[e] = {} THEN 0 ELSE CHOOSE x \in drawn[e] : TRUE]

(* The input states whose edges with equal spins are those of the chain's. *)
SamePattern ==
    { s \in Vectors(lattice.nv, lattice.order) :
        \A e \in Edges : SameSpin(s, e) <=> SameSpin(chain.state, e) }

(* C10: on any input state with the same edges of equal spins, the same
   draws and the same coefficients, proposal sets the same flags and returns
   the same vector: it builds the selector it built for the chain's state,
   and the vector is the one that selector and the coefficients give. *)
DependsOnPatternOnly ==
    last = "proposal" =>
        /\ \A s \in SamePattern :
              /\ EdgeFlags(lattice, s, PNow, LastDraws) = spin
              /\ Consulted(lattice, s, LastDraws) = drawn
              /\ Selector(lattice, s, PNow, LastDraws) = included
        /\ Combine(lattice.order, LastBasis, coeffs) = proposed

(* A call on the all-0 state that included an edge: the all-1 state has the
   same pattern. *)
DependsOnPatternOnlyWitness ==
    /\ last = "proposal"
    /\ chain.state = ZeroVector
    /\ \E e \in Edges : spin[e] = 1
    /\ Cardinality(SamePattern) > 1

====
